---- MODULE Spec2Model ----
(***************************************************************************)
(* Model of plugins/RunCommand/execute_command.py: one synchronous call of *)
(* execute_command(command, subprocess, timeout, encoding, errors, shell,  *)
(* input_data, environment), cut at the points where control can leave the *)
(* straight line (validation, normalisation, parameter build, the call of  *)
(* subprocess.run, decoding, and each except clause).                      *)
(*                                                                         *)
(* Text (str) is a sequence of one-character or one-word strings; bytes    *)
(* captured from the child are one of a few named payloads.  None is NULL. *)
(* The except clause for CalledProcessError (lines 90-95) has no action:   *)
(* params never carries "check", so subprocess.run never raises it.        *)
(***************************************************************************)
EXTENDS Integers, Sequences, FiniteSets, TLC

VARIABLES pc, command, shell, timeout, encoding, errors, input_data,
          environment, cmd, use_shell, params, os_environ, spawns,
          missing, result, outcome

vars == <<pc, command, shell, timeout, encoding, errors, input_data,
          environment, cmd, use_shell, params, os_environ, spawns,
          missing, result, outcome>>

(* ------------------------------ bounds -------------------------------- *)
MaxLen == 2

(* ------------------------------ values -------------------------------- *)
NULL == <<"<None>">>
NonStr == <<"<int>">>
Chars == {"a", " ", "'"}
Whitespace == {" "}
Quotes == {"'"}

RECURSIVE StringsUpTo(_)
StringsUpTo(n) ==
    IF n = 0 THEN {<<>>}
    ELSE LET S == StringsUpTo(n - 1)
         IN  S \cup {Append(s, c) : s \in {t \in S : Len(t) = n - 1}, c \in Chars}

CommandStrings == StringsUpTo(MaxLen) \cup {<<"a", " ", "a">>}
CommandSeqs == {<<>>, << <<"a">> >>, << <<"a", " ">>, <<"a">> >>}
CommandBadSeqs == {<<NonStr>>, << <<"a">>, NonStr >>}

Commands ==
    {[kind |-> "str", val |-> s] : s \in CommandStrings}
    \cup {[kind |-> k, val |-> s] : k \in {"list", "tuple"}, s \in CommandSeqs}
    \cup {[kind |-> "list", val |-> s] : s \in CommandBadSeqs}
    \cup {[kind |-> k, val |-> <<>>] : k \in {"int", "NoneType"}}

Timeouts == {1, 30}
Encodings == {"utf-8", "ascii", "idna", "bogus"}
Policies == {"ignore", "strict", "bogus"}
CapturedBytes == {"empty", "good", "bad"}
PartialBytes == {"None", "good", "bad"}
InputData == {"None", "bytes", "text", "text-nonascii"}
ExitCodes == {0, 1, -6}
ShellNotFoundCode == 127

NoEnv == [given |-> FALSE, map |-> <<>>]
EnvOf(m) == [given |-> TRUE, map |-> m]
ProcessEnviron == ("K1" :> "v0") @@ ("K2" :> "v0")
Environments == {NoEnv, EnvOf(("K1" :> "v1") @@ ("K3" :> "v1"))}

NoParams == [args |-> [kind |-> "NoneType", val |-> <<>>], shell |-> FALSE,
             timeout |-> 0, text |-> FALSE, input |-> NULL, env |-> NoEnv]
NoResult == [kind |-> "none", name |-> "none", stdout |-> "None",
             stderr |-> "None", returncode |-> 0]
NoOutcome == [returncode |-> 0, stdout |-> NULL, stderr |-> NULL,
              pending |-> TRUE]

(* ------------------------- pure helpers ------------------------------- *)

\* bytes.decode(enc, errors=err) on a captured payload
BytesDecode(data, enc, err) ==
    CASE data = "empty" -> [raised |-> "no", text |-> <<>>]
      [] enc = "bogus" -> [raised |-> "LookupError", text |-> <<>>]
      [] enc = "idna" /\ err # "strict" ->
             [raised |-> "UnicodeError", text |-> <<>>]
      [] data = "good" -> [raised |-> "no", text |-> <<"h", "i">>]
      [] err = "strict" -> [raised |-> "UnicodeDecodeError", text |-> <<>>]
      [] err = "replace" -> [raised |-> "no", text |-> <<"\\ufffd">>]
      [] err = "bogus" -> [raised |-> "LookupError", text |-> <<>>]
      [] OTHER -> [raised |-> "no", text |-> <<>>]

\* str(data) of a bytes object
BytesRepr(data) ==
    CASE data = "empty" -> <<"b'", "'">>
      [] data = "good" -> <<"b'", "h", "i", "'">>
      [] OTHER -> <<"b'", "\\xff", "'">>

safe_decode(data, enc, err) ==
    IF data = "None" THEN [raised |-> "no", text |-> <<>>]
    ELSE LET first == BytesDecode(data, enc, err)
         IN  CASE first.raised = "no" -> first
               [] first.raised = "UnicodeDecodeError" ->
                      BytesDecode(data, enc, "replace")
               [] OTHER -> [raised |-> "no", text |-> BytesRepr(data)]

\* shlex.split(s): POSIX rules, whitespace_split, over Chars
RECURSIVE ShlexLex(_, _, _, _, _, _)
ShlexLex(s, i, state, token, quoted, toks) ==
    IF i > Len(s) THEN
        CASE state = "quote" -> [ok |-> FALSE, toks |-> <<>>]
          [] state = "word" /\ (token # <<>> \/ quoted) ->
                 [ok |-> TRUE, toks |-> Append(toks, token)]
          [] OTHER -> [ok |-> TRUE, toks |-> toks]
    ELSE LET c == s[i] IN
        CASE state = "ws" /\ c \in Whitespace ->
                 ShlexLex(s, i + 1, "ws", <<>>, FALSE, toks)
          [] state = "ws" /\ c \in Quotes ->
                 ShlexLex(s, i + 1, "quote", <<>>, TRUE, toks)
          [] state = "ws" ->
                 ShlexLex(s, i + 1, "word", <<c>>, FALSE, toks)
          [] state = "quote" /\ c \in Quotes ->
                 ShlexLex(s, i + 1, "word", token, quoted, toks)
          [] state = "quote" ->
                 ShlexLex(s, i + 1, "quote", Append(token, c), quoted, toks)
          [] state = "word" /\ c \in Whitespace ->
                 IF token # <<>> \/ quoted
                 THEN ShlexLex(s, i + 1, "ws", <<>>, FALSE, Append(toks, token))
                 ELSE ShlexLex(s, i + 1, "ws", <<>>, FALSE, toks)
          [] state = "word" /\ c \in Quotes ->
                 ShlexLex(s, i + 1, "quote", token, TRUE, toks)
          [] OTHER ->
                 ShlexLex(s, i + 1, "word", Append(token, c), quoted, toks)

ShlexSplit(s) == ShlexLex(s, 1, "ws", <<>>, FALSE, <<>>)

\* str.split(): the whitespace-delimited words of s
RECURSIVE StrSplit(_, _, _, _)
StrSplit(s, i, word, words) ==
    IF i > Len(s) THEN IF word # <<>> THEN Append(words, word) ELSE words
    ELSE IF s[i] \in Whitespace
         THEN StrSplit(s, i + 1, <<>>,
                       IF word # <<>> THEN Append(words, word) ELSE words)
         ELSE StrSplit(s, i + 1, Append(word, s[i]), words)

\* cmd_name = command[0] if isinstance(command, list) else command.split()[0]
cmd_name(c) ==
    CASE c.kind = "list" ->
             IF Len(c.val) > 0 THEN [raised |-> "no", name |-> c.val[1]]
             ELSE [raised |-> "IndexError", name |-> <<>>]
      [] c.kind = "str" ->
             LET words == StrSplit(c.val, 1, <<>>, <<>>)
             IN  IF Len(words) > 0 THEN [raised |-> "no", name |-> words[1]]
                 ELSE [raised |-> "IndexError", name |-> <<>>]
      [] OTHER -> [raised |-> "AttributeError", name |-> <<>>]

\* input_data.encode(encoding) when input_data is a str; bytes pass through
EncodeInput(data, enc) ==
    CASE data = "None" -> [raised |-> "no", bytes |-> NULL]
      [] data = "bytes" -> [raised |-> "no", bytes |-> <<"raw">>]
      [] enc = "bogus" -> [raised |-> "LookupError", bytes |-> NULL]
      [] data = "text-nonascii" /\ enc = "ascii" ->
             [raised |-> "UnicodeEncodeError", bytes |-> NULL]
      [] OTHER -> [raised |-> "no", bytes |-> <<data, enc>>]

MergeEnv_BaseWins(base, over) ==
    [k \in DOMAIN base \cup DOMAIN over |->
        IF k \in DOMAIN base THEN base[k] ELSE over[k]]

\* env = os.environ.copy(); env.update(environment)
MergeEnv(base, over) ==
    [k \in DOMAIN base \cup DOMAIN over |->
        IF k \in DOMAIN over THEN over[k] ELSE base[k]]

(* ------------------- the process-spawning primitive ------------------- *)
Completed(rc, so, se) ==
    [kind |-> "completed", name |-> "none", stdout |-> so, stderr |-> se,
     returncode |-> rc]
Raised(k, so, se) ==
    [kind |-> k, name |-> k, stdout |-> so, stderr |-> se, returncode |-> 0]

HasNonStr(seq) == \E i \in 1..Len(seq) : seq[i] = NonStr
Malformed(p) ==
    /\ p.args.kind \in {"list", "tuple"}
    /\ HasNonStr(p.args.val) \/ (p.args.val = <<>> /\ ~p.shell)

\* the executable a well-formed command names: args[0], or the first word
\* of a command line the shell can parse
HasTarget(p) ==
    /\ ~Malformed(p)
    /\ IF p.args.kind = "str"
       THEN ShlexSplit(p.args.val).ok /\ ShlexSplit(p.args.val).toks # <<>>
       ELSE p.args.val # <<>>

\* what subprocess.run(**params) can do; m: the named executable is missing
RunResults(p, m) ==
    IF Malformed(p)
    THEN {Raised(IF HasNonStr(p.args.val) THEN "TypeError" ELSE "IndexError",
                 "None", "None")}
    ELSE IF m /\ ~p.shell
    THEN {Raised("FileNotFoundError", "None", "None")}
    ELSE IF m
    THEN {Completed(ShellNotFoundCode, "empty", "good"),
          Raised("FileNotFoundError", "None", "None")}
    ELSE {Completed(rc, so, se) :
              rc \in ExitCodes, so \in CapturedBytes, se \in CapturedBytes}
         \cup {Raised("TimeoutExpired", so, se) :
                  so \in PartialBytes, se \in PartialBytes}
         \cup {Raised(k, "None", "None") :
                  k \in {"FileNotFoundError", "PermissionError",
                         "KeyboardInterrupt", "OSError"}}

(* ------------------------------ state --------------------------------- *)
Init ==
    /\ pc = "idle"
    /\ command = [kind |-> "NoneType", val |-> <<>>]
    /\ shell = FALSE
    /\ timeout = 30
    /\ encoding = "utf-8"
    /\ errors = "ignore"
    /\ input_data = "None"
    /\ environment = NoEnv
    /\ cmd = [kind |-> "NoneType", val |-> <<>>]
    /\ use_shell = FALSE
    /\ params = NoParams
    /\ os_environ = ProcessEnviron
    /\ spawns = <<>>
    /\ missing = FALSE
    /\ result = NoResult
    /\ outcome = NoOutcome

inputs == <<command, shell, timeout, encoding, errors, input_data, environment>>

\* a caller invokes execute_command(...)
Call ==
    /\ pc = "idle"
    /\ command' \in Commands
    /\ shell' \in BOOLEAN
    /\ timeout' \in Timeouts
    /\ encoding' \in Encodings
    /\ errors' \in Policies
    /\ input_data' \in InputData
    /\ environment' \in Environments
    /\ cmd' = command'
    /\ use_shell' = FALSE
    /\ params' = NoParams
    /\ spawns' = <<>>
    /\ missing' = FALSE
    /\ result' = NoResult
    /\ outcome' = NoOutcome
    /\ pc' = "validate"
    /\ UNCHANGED os_environ

IsAccepted(c) == c.kind \in {"list", "tuple", "str"}

\* lines 34-39
RejectType ==
    /\ pc = "validate"
    /\ ~IsAccepted(command)
    /\ outcome' = [stdout |-> NULL,
                   stderr |-> <<"Error: command must be a string or list of strings">>,
                   returncode |-> -2]
    /\ pc' = "returned"
    /\ UNCHANGED <<inputs, cmd, use_shell, params, os_environ, spawns,
                   missing, result>>

Normalized_NoFallback(c, sh) ==
    IF c.kind = "str" /\ ~sh
    THEN LET r == ShlexSplit(c.val)
         IN  IF r.ok THEN [cmd |-> [kind |-> "list", val |-> r.toks],
                           use_shell |-> FALSE]
             ELSE [cmd |-> c, use_shell |-> sh]
    ELSE [cmd |-> c, use_shell |-> sh]

\* the (command, use_shell) pair left by lines 42-50
Normalized(c, sh) ==
    IF c.kind = "str" /\ ~sh
    THEN LET r == ShlexSplit(c.val)
         IN  IF r.ok THEN [cmd |-> [kind |-> "list", val |-> r.toks],
                           use_shell |-> FALSE]
             ELSE [cmd |-> c, use_shell |-> TRUE]
    ELSE [cmd |-> c, use_shell |-> sh]

Normalize ==
    /\ pc = "validate"
    /\ IsAccepted(command)
    /\ cmd' = Normalized(command, shell).cmd
    /\ use_shell' = Normalized(command, shell).use_shell
    /\ pc' = "build"
    /\ UNCHANGED <<inputs, params, os_environ, spawns, missing, result,
                   outcome>>

\* the params dict of lines 54-75
BuiltParams(c, sh, t, inp, envir, procenv) ==
    [args |-> c, shell |-> sh, timeout |-> t, text |-> FALSE, input |-> inp,
     env |-> IF envir.given THEN EnvOf(MergeEnv(procenv, envir.map))
             ELSE NoEnv]

BuildParams ==
    /\ pc = "build"
    /\ LET enc == EncodeInput(input_data, encoding)
       IN  IF enc.raised # "no"
           THEN /\ result' = Raised(enc.raised, "None", "None")
                /\ pc' = "except"
                /\ UNCHANGED params
           ELSE /\ params' = BuiltParams(cmd, use_shell, timeout, enc.bytes,
                                         environment, os_environ)
                /\ pc' = "run"
                /\ UNCHANGED result
    /\ UNCHANGED <<inputs, cmd, use_shell, os_environ, spawns, missing,
                   outcome>>

Run_Retry ==
    /\ pc = "run"
    /\ \E m \in {FALSE, HasTarget(params)} :
         /\ missing' = m
         /\ result' \in RunResults(params, m)
    /\ spawns' = IF result'.kind = "TimeoutExpired"
                 THEN spawns \o <<params, params>>
                 ELSE Append(spawns, params)
    /\ pc' = IF result'.kind = "completed" THEN "decode" ELSE "except"
    /\ UNCHANGED <<inputs, cmd, use_shell, params, os_environ, outcome>>

\* line 78
Run ==
    /\ pc = "run"
    /\ spawns' = Append(spawns, params)
    /\ \E m \in {FALSE, HasTarget(params)} :
         /\ missing' = m
         /\ result' \in RunResults(params, m)
    /\ pc' = IF result'.kind = "completed" THEN "decode" ELSE "except"
    /\ UNCHANGED <<inputs, cmd, use_shell, params, os_environ, outcome>>

\* lines 81-88
Complete ==
    /\ pc = "decode"
    /\ LET so == safe_decode(result.stdout, encoding, errors)
           se == safe_decode(result.stderr, encoding, errors)
       IN  IF so.raised # "no" \/ se.raised # "no"
           THEN /\ result' = Raised(IF so.raised # "no" THEN so.raised
                                    ELSE se.raised, "None", "None")
                /\ pc' = "except"
                /\ UNCHANGED outcome
           ELSE /\ outcome' = [stdout |-> so.text, stderr |-> se.text,
                               returncode |-> result.returncode]
                /\ pc' = "returned"
                /\ UNCHANGED result
    /\ UNCHANGED <<inputs, cmd, use_shell, params, os_environ, spawns,
                   missing>>

TimeoutNote_Default(t) == <<"\nCommand timed out after ", "30", " seconds">>

TimeoutNote(t) == <<"\nCommand timed out after ", ToString(t), " seconds">>

\* lines 96-107
HandleTimeout ==
    /\ pc = "except"
    /\ result.kind = "TimeoutExpired"
    /\ LET so == safe_decode(result.stdout, encoding, errors)
           se == safe_decode(result.stderr, encoding, errors)
       IN  IF so.raised # "no" \/ se.raised # "no"
           THEN /\ result' = Raised(IF so.raised # "no" THEN so.raised
                                    ELSE se.raised, "None", "None")
                /\ pc' = "escaped"
                /\ UNCHANGED outcome
           ELSE /\ outcome' = [stdout |-> so.text,
                               stderr |-> se.text \o TimeoutNote(timeout),
                               returncode |-> -3, timeout |-> TRUE]
                /\ pc' = "returned"
                /\ UNCHANGED result
    /\ UNCHANGED <<inputs, cmd, use_shell, params, os_environ, spawns,
                   missing>>

ErrorText == "<str(e)>"

\* lines 108-114
HandleNotFound ==
    /\ pc = "except"
    /\ result.kind = "FileNotFoundError"
    /\ LET n == cmd_name(cmd)
       IN  IF n.raised # "no"
           THEN /\ result' = Raised(n.raised, "None", "None")
                /\ pc' = "escaped"
                /\ UNCHANGED outcome
           ELSE /\ outcome' = [stdout |-> NULL,
                               stderr |-> <<"Command not found: ">> \o n.name
                                          \o <<"\nError: ", ErrorText>>,
                               returncode |-> -4]
                /\ pc' = "returned"
                /\ UNCHANGED result
    /\ UNCHANGED <<inputs, cmd, use_shell, params, os_environ, spawns,
                   missing>>

\* lines 115-121
HandlePermission ==
    /\ pc = "except"
    /\ result.kind = "PermissionError"
    /\ LET n == cmd_name(cmd)
       IN  IF n.raised # "no"
           THEN /\ result' = Raised(n.raised, "None", "None")
                /\ pc' = "escaped"
                /\ UNCHANGED outcome
           ELSE /\ outcome' = [stdout |-> NULL,
                               stderr |-> <<"Permission denied for command: ">>
                                          \o n.name
                                          \o <<"\nError: ", ErrorText>>,
                               returncode |-> -5]
                /\ pc' = "returned"
                /\ UNCHANGED result
    /\ UNCHANGED <<inputs, cmd, use_shell, params, os_environ, spawns,
                   missing>>

\* lines 122-127
HandleInterrupt ==
    /\ pc = "except"
    /\ result.kind = "KeyboardInterrupt"
    /\ outcome' = [stdout |-> NULL,
                   stderr |-> <<"Command execution interrupted by user">>,
                   returncode |-> -6]
    /\ pc' = "returned"
    /\ UNCHANGED <<inputs, cmd, use_shell, params, os_environ, spawns,
                   missing, result>>

\* lines 128-133
HandleUnexpected ==
    /\ pc = "except"
    /\ result.kind \notin {"TimeoutExpired", "FileNotFoundError",
                           "PermissionError", "KeyboardInterrupt"}
    /\ outcome' = [stdout |-> NULL,
                   stderr |-> <<"Unexpected error: ", result.name,
                                "\nDetails: ", ErrorText>>,
                   returncode |-> -1]
    /\ pc' = "returned"
    /\ UNCHANGED <<inputs, cmd, use_shell, params, os_environ, spawns,
                   missing, result>>

\* the caller has the Outcome (or the exception) and may call again
Finish ==
    /\ pc \in {"returned", "escaped"}
    /\ pc' = "idle"
    /\ command' = [kind |-> "NoneType", val |-> <<>>]
    /\ shell' = FALSE
    /\ timeout' = 30
    /\ encoding' = "utf-8"
    /\ errors' = "ignore"
    /\ input_data' = "None"
    /\ environment' = NoEnv
    /\ cmd' = [kind |-> "NoneType", val |-> <<>>]
    /\ use_shell' = FALSE
    /\ params' = NoParams
    /\ spawns' = <<>>
    /\ missing' = FALSE
    /\ result' = NoResult
    /\ outcome' = NoOutcome
    /\ UNCHANGED os_environ

Next ==
    \/ Call
    \/ RejectType
    \/ Normalize
    \/ BuildParams
    \/ Run
    \/ Complete
    \/ HandleTimeout
    \/ HandleNotFound
    \/ HandlePermission
    \/ HandleInterrupt
    \/ HandleUnexpected
    \/ Finish

Spec == Init /\ [][Next]_vars

(* ============================== claims ================================ *)
Done == pc \in {"returned", "escaped"}

Contains(seq, sub) ==
    \E i \in 0..(Len(seq) - Len(sub)) :
        \A j \in 1..Len(sub) : seq[i + j] = sub[j]

EndsWith(seq, sub) ==
    /\ Len(seq) >= Len(sub)
    /\ \A j \in 1..Len(sub) : seq[Len(seq) - Len(sub) + j] = sub[j]

\* C1: every call ends by returning an Outcome, no exception reaches the
\* caller, and every failure path has a negative returnCode and a non-empty
\* stderr message.
C1_AlwaysOutcome ==
    /\ pc # "escaped"
    /\ pc = "returned" /\ result.kind # "completed" =>
           /\ outcome.returncode < 0
           /\ outcome.stderr \notin {<<>>, NULL}

\* C2: a command that is neither a string nor a sequence of strings is
\* rejected with returnCode -2, null stdout and the type-error message, and
\* the spawning primitive is never invoked during that call.
IsStringOrStrings(c) ==
    \/ c.kind = "str"
    \/ c.kind \in {"list", "tuple"} /\ ~HasNonStr(c.val)

C2_RejectedWithoutSpawn ==
    pc # "idle" /\ ~IsStringOrStrings(command) =>
        /\ spawns = <<>>
        /\ pc \notin {"run", "decode", "except", "escaped"}
        /\ pc = "returned" =>
               /\ outcome.returncode = -2
               /\ outcome.stdout = NULL
               /\ outcome.stderr =
                      <<"Error: command must be a string or list of strings">>

\* C3: a returned Outcome carries the timed-out flag exactly when the run
\* was aborted by the timeout; then returnCode is -3, stdout and stderr are
\* the decoded partial output (empty text when nothing was captured, never
\* null) and stderr ends with the "timed out after N seconds" note for the
\* timeout that was passed in.
C3_TimedOutFlag ==
    pc = "returned" =>
        /\ ("timeout" \in DOMAIN outcome) <=> (result.kind = "TimeoutExpired")
        /\ "timeout" \in DOMAIN outcome =>
               /\ outcome.timeout = TRUE
               /\ outcome.returncode = -3
               /\ outcome.stdout # NULL
               /\ outcome.stderr # NULL
               /\ outcome.stdout =
                      safe_decode(result.stdout, encoding, errors).text
               /\ result.stdout = "None" => outcome.stdout = <<>>
               /\ outcome.stderr =
                      safe_decode(result.stderr, encoding, errors).text
                      \o <<"\nCommand timed out after ", ToString(timeout),
                           " seconds">>
               /\ result.stderr = "None" => Len(outcome.stderr) = 3

C3_Witness ==
    /\ pc = "returned"
    /\ result.kind = "TimeoutExpired"
    /\ result.stdout = "good"
    /\ result.stderr = "None"
    /\ timeout = 1
    /\ outcome.stdout = <<"h", "i">>

\* C4: when the named executable does not exist, the call returns
\* returnCode -4 with null stdout and a stderr containing the command name
\* (first token of the vector, or first word of the string form), for every
\* command form and shell mode.
FirstName(c) ==
    IF c.kind = "str" THEN LET w == StrSplit(c.val, 1, <<>>, <<>>)
                           IN  IF w = <<>> THEN <<>> ELSE w[1]
    ELSE IF c.val = <<>> THEN <<>> ELSE c.val[1]

C4_NotFoundReported ==
    Done /\ missing =>
        /\ pc = "returned"
        /\ outcome.returncode = -4
        /\ outcome.stdout = NULL
        /\ Contains(outcome.stderr, FirstName(cmd))

\* C5: a negative returnCode means a framework-level failure and nothing
\* else; a completed child yields a code >= 0 and each failure category has
\* its own code, so the category follows from returnCode alone.
C5_SentinelCodes ==
    pc = "returned" =>
        /\ result.kind = "completed" => outcome.returncode >= 0
        /\ outcome.returncode = -2 <=> ~IsAccepted(command)
        /\ outcome.returncode = -3 <=> result.kind = "TimeoutExpired"
        /\ outcome.returncode = -4 <=> result.kind = "FileNotFoundError"
        /\ outcome.returncode = -5 <=> result.kind = "PermissionError"
        /\ outcome.returncode = -6 <=> result.kind = "KeyboardInterrupt"
        /\ outcome.returncode = -1 <=>
               /\ IsAccepted(command)
               /\ result.kind \notin {"completed", "TimeoutExpired",
                      "FileNotFoundError", "PermissionError",
                      "KeyboardInterrupt"}

\* C6 (as stated): every call whose command passes validation invokes the
\* spawning primitive exactly once, whatever the input data and environment.
C6_ExactlyOnce ==
    /\ Len(spawns) <= 1
    /\ Done /\ IsAccepted(command) => Len(spawns) = 1

\* C6 (amended): a call whose command passes validation invokes the spawning
\* primitive at most once and never retries; it invokes it exactly once
\* unless encoding the text input data raises while the parameters are
\* built, and then it returns returnCode -1 without spawning.
C6_OnceUnlessBuildFails ==
    /\ Len(spawns) <= 1
    /\ Done /\ IsAccepted(command) =>
           IF (input_data \in {"text", "text-nonascii"} /\ encoding = "bogus")
              \/ (input_data = "text-nonascii" /\ encoding = "ascii")
           THEN /\ spawns = <<>>
                /\ pc = "returned"
                /\ outcome.returncode = -1
           ELSE Len(spawns) = 1

C6_Witness ==
    /\ pc = "returned"
    /\ IsAccepted(command)
    /\ result.kind = "TimeoutExpired"
    /\ input_data = "text"
    /\ environment.given
    /\ use_shell /\ ~shell
    /\ Len(spawns) = 1

\* C7: with overrides, the child's environment is the process environment
\* with every supplied key set to its supplied value and every other
\* variable inherited; the process's own environment is the same before and
\* after the call on every exit path; with no overrides no environment is
\* passed to the spawning primitive.
C7_EnvironmentMerge ==
    /\ os_environ = ProcessEnviron
    /\ \A i \in 1..Len(spawns) :
          IF environment.given
          THEN /\ spawns[i].env.given
               /\ DOMAIN spawns[i].env.map =
                      DOMAIN os_environ \cup DOMAIN environment.map
               /\ \A k \in DOMAIN environment.map :
                      spawns[i].env.map[k] = environment.map[k]
               /\ \A k \in DOMAIN os_environ \ DOMAIN environment.map :
                      spawns[i].env.map[k] = os_environ[k]
          ELSE ~spawns[i].env.given

C7_Witness ==
    /\ pc = "returned"
    /\ environment.given
    /\ Len(spawns) = 1
    /\ spawns[1].env.map["K1"] = "v1"
    /\ spawns[1].env.map["K2"] = "v0"
    /\ os_environ["K1"] = "v0"

\* C9: a string command with shell off is spawned as its shell-lexical
\* tokens with shell mode off; if tokenization fails the unmodified string
\* is spawned with shell mode on; a string with shell on is passed through
\* untokenized with shell mode on; a sequence is passed through unchanged
\* with the caller's shell flag.
QuoteCount(s) == Cardinality({i \in 1..Len(s) : s[i] \in Quotes})
RECURSIVE Flatten(_)
Flatten(toks) == IF toks = <<>> THEN <<>> ELSE Head(toks) \o Flatten(Tail(toks))
Unspaced(s) == SelectSeq(s, LAMBDA c : c \notin Whitespace)

C9_Normalization ==
    \A i \in 1..Len(spawns) :
        LET p == spawns[i] IN
        CASE command.kind = "str" /\ ~shell /\ QuoteCount(command.val) % 2 = 0 ->
                 /\ p.args.kind = "list"
                 /\ ~p.shell
                 /\ p.args.val = ShlexSplit(command.val).toks
                 /\ QuoteCount(command.val) = 0 =>
                        /\ Flatten(p.args.val) = Unspaced(command.val)
                        /\ \A t \in 1..Len(p.args.val) :
                               /\ p.args.val[t] # <<>>
                               /\ \A j \in 1..Len(p.args.val[t]) :
                                      p.args.val[t][j] \notin Whitespace
                 /\ command.val = <<"a", " ", "a">> =>
                        p.args.val = << <<"a">>, <<"a">> >>
          [] command.kind = "str" /\ ~shell ->
                 /\ p.args = command
                 /\ p.shell
          [] OTHER ->
                 /\ p.args = command
                 /\ p.shell = shell

C9_Witness ==
    /\ pc = "returned"
    /\ command.kind = "str"
    /\ ~shell
    /\ Len(spawns) = 1
    /\ spawns[1].shell
    /\ spawns[1].args = command
    /\ result.kind = "completed"

\* C10: decoding a captured stream never fails: absent data gives the empty
\* string; otherwise the bytes are decoded with the configured encoding and
\* policy; whenever that raises, for any reason, decoding is retried with
\* the replacement policy; only if the retry fails too is the string
\* representation of the raw bytes returned.
ChainText(data, enc, err) ==
    IF data = "None" THEN <<>>
    ELSE IF BytesDecode(data, enc, err).raised = "no"
    THEN BytesDecode(data, enc, err).text
    ELSE IF BytesDecode(data, enc, "replace").raised = "no"
    THEN BytesDecode(data, enc, "replace").text
    ELSE BytesRepr(data)

C10_DecodeChain ==
    /\ pc = "except" => result.kind \notin {"UnicodeError", "LookupError",
                                             "UnicodeDecodeError"}
                        \/ spawns = <<>>
    /\ pc = "escaped" => result.kind \notin {"UnicodeError", "LookupError",
                                              "UnicodeDecodeError"}
    /\ pc = "returned" /\ result.kind \in {"completed", "TimeoutExpired"} =>
           /\ outcome.stdout = ChainText(result.stdout, encoding, errors)
           /\ EndsWith(IF result.kind = "completed" THEN outcome.stderr
                       ELSE SubSeq(outcome.stderr, 1, Len(outcome.stderr) - 3),
                       ChainText(result.stderr, encoding, errors))

====
